---- MODULE Spec2Model ----
(***************************************************************************)
(* Model of the capture orchestration of gods_eye.py: run_parallel and its *)
(* sem_task workers, the attempt loop of capture_page, export_json and the *)
(* part of main that chains runs through results.json.                     *)
(*                                                                         *)
(* asyncio runs the coroutines on one thread, so every action below is the *)
(* code between two awaits of one coroutine.                               *)
(***************************************************************************)
EXTENDS Integers, Sequences, FiniteSets, TLC

\* ---------------------------------------------------------------- bounds
MaxTargets == 2      \* longest target list
MaxThreads == 2      \* largest --threads
MaxRetries == 1      \* largest --retries
MaxRuns    == 2      \* invocations of main in one behaviour

\* ------------------------------------------------------------- constants
ERR == -1            \* the status marker "ERR" (statuses are ints otherwise)

\* Target URLs.  urlparse raises ValueError on the last one (unbalanced
\* bracket in the netloc); the other two parse.
Urls == {"http://a", "http://a/b", "http://[x"}

\* resp.status of a navigation that succeeded
StatusCodes == {200}

\* page title read back by pg.title()
PageTitle == <<"T">>

\* category, grade and technologies found on a page that loaded
PageCategory == "Login Page"
PageGrade == "D"
PageTechs == <<"Nginx">>

VARIABLES
    phase,             \* "start" | "running" | "returned" | "aborted"
    run_no,            \* invocations of main so far
    urls,              \* deduplicated, filtered target list
    resume,            \* args.resume
    threads,           \* args.threads
    retries,           \* args.retries
    rate_limit,        \* args.rate_limit > 0
    json_exists,       \* os.path.isfile(out/results.json)
    json_ok,           \* json.load can parse out/results.json
    results_json,      \* content of out/results.json
    done_urls,         \* run_parallel: done_urls
    previous_results,  \* run_parallel: previous_results
    pending_urls,      \* run_parallel: pending_urls, pairs <<i, url>>
    task,              \* one sem_task per pending pair
    results,           \* run_parallel: results
    last,              \* the run that wrote results_json: its targets and results
    counts,            \* run_parallel: success, warn, fail
    call,              \* a function called on its own: its name and arguments
    ret,               \* what that call returned; the frame of a call that is running
    diff_store,        \* main: args.diff and the results.json it points to
    prev_by_url,       \* main: prev_by_url
    diff_i,            \* main: the results the diff loop has gone through
    n_diff             \* main: n_critical, n_high, ..., n_unchanged

vars == <<phase, run_no, urls, resume, threads, retries, rate_limit,
          json_exists, json_ok, results_json, done_urls, previous_results,
          pending_urls, task, results, last, counts, call, ret,
          diff_store, prev_by_url, diff_i, n_diff>>

\* the diff pass of main
diffvars == <<diff_store, prev_by_url, diff_i, n_diff>>

\* the state of a run of main
runvars == <<phase, run_no, urls, resume, threads, retries, rate_limit,
             json_exists, json_ok, results_json, done_urls,
             previous_results, pending_urls, task, results, last, counts, diffvars>>

\* the state outside run_parallel and the exports: a function applied on
\* its own, and the diff pass
offrun == <<call, ret, diffvars>>

\* ------------------------------------------------------------ helpers
Range(s) == {s[k] : k \in DOMAIN s}

\* dict.get(key, default)
Get(r, key, default) == IF key \in DOMAIN r THEN r[key] ELSE default

\* all sequences of pairwise distinct URLs with 1..MaxTargets elements
\* (main deduplicates and exits when the list is empty)
TargetLists ==
    UNION {{s \in [1..n -> Urls] : \A i, j \in 1..n : i # j => s[i] # s[j]} :
           n \in 1..MaxTargets}

\* urlparse(url) returns (FALSE: it raises ValueError)
Parseable(url) == url # "http://[x"

\* sanitize_filename(urlparse(url).netloc): the host part of the target,
\* the same for two targets on one host
Netloc(url) == IF url \in {"http://a", "http://a/b"} THEN "a" ELSE ""

\* the screenshot file of a capture: "{index:03d}_{short}.{ext}"
ScreenshotPathByHost(index, url) == <<0, Netloc(url)>>
ScreenshotPath(index, url) == <<index, Netloc(url)>>

\* ------------------------------------------------- capture_page (worker)
\* locals of capture_page before the attempt loop; `attempt` counts the
\* iterations of the loop entered, fails/backoffs count what the
\* attempts did, shot_written says that pg.screenshot has written the
\* image file screenshot_path, open counts the browsing contexts the task
\* has created and not closed
InitTask ==
    [pc |-> "wait", attempt |-> 0, ctx |-> FALSE, brk |-> FALSE,
     status |-> 0, screenshot_taken |-> FALSE, title |-> <<>>,
     techs |-> <<>>, category |-> "", sec_grade |-> "F",
     fails |-> 0, backoffs |-> 0, shot_written |-> FALSE, open |-> 0]

\* the index run_parallel hands to capture_page for enumerate position i
TaskIndexZeroBased(i) == i
TaskIndex(i) == i + 1

\* `if attempt == retries: break` (attempt is the 0-based loop variable)
NeverLastAttempt(attempt, budget) == FALSE
LastAttempt(attempt, budget) == attempt = budget

\* `for attempt in range(retries + 1)`: is there another iteration after
\* `entered` iterations
MoreAttempts(entered, budget) == entered < budget + 1

\* `except Exception` catches the failure of a step of an attempt
Caught(step) == step \in {"ctx", "nav", "shot", "hdr"}

\* asyncio.Semaphore(threads): a slot is free
SemUnbounded(held, size) == TRUE
SemAvailable(held, size) == held < size

\* the dict capture_page returns
TaskResult(k) ==
    LET i == pending_urls[k][1]
        u == pending_urls[k][2]
        T == task[k]
    IN  [index |-> TaskIndex(i), url |-> u, status |-> T.status,
         screenshot_taken |-> T.screenshot_taken,
         screenshot_path |-> ScreenshotPath(TaskIndex(i), u),
         title |-> T.title, techs |-> T.techs, category |-> T.category,
         sec_grade |-> T.sec_grade]

Tasks == DOMAIN task

\* sem_task holds a pool slot
Holding(k) == task[k].pc \in {"rate", "newctx", "page", "backoff", "closing"}
\* capture_page has been called and has not returned
InFlight(k) == task[k].pc \in {"newctx", "page", "backoff", "closing"}
Held == Cardinality({k \in Tasks : Holding(k)})

\* an exception leaves capture_page and sem_task k: gather re-raises it in
\* run_parallel, main ends with it and asyncio.run cancels the tasks that
\* have not finished
Raised(k) ==
    [j \in Tasks |-> IF j = k THEN [task[j] EXCEPT !.pc = "raised"]
                     ELSE IF task[j].pc = "done" THEN task[j]
                     ELSE [InitTask EXCEPT !.pc = "cancelled"]]

\* sem_task calls capture_page: lines 567-597 run without an await.  urlparse
\* raises outside the try.
CallCapture(k) ==
    IF Parseable(pending_urls[k][2])
    THEN /\ task' = [task EXCEPT ![k].pc = "newctx", ![k].attempt = 1]
         /\ phase' = phase
    ELSE /\ task' = Raised(k)
         /\ phase' = "aborted"

\* the loop moves on after an attempt that did not break
NextIteration(T) ==
    IF MoreAttempts(T.attempt, retries)
    THEN [T EXCEPT !.pc = "newctx", !.attempt = @ + 1]
    ELSE [T EXCEPT !.pc = "done"]

\* the except block of an attempt, up to its next await
Except(T) ==
    LET E == [T EXCEPT !.screenshot_taken = FALSE, !.status = ERR,
                       !.fails = @ + 1]
    IN  IF LastAttempt(T.attempt - 1, retries)
        THEN \* break; finally: close the context if there is one
             IF E.ctx THEN [E EXCEPT !.brk = TRUE, !.pc = "closing"]
                      ELSE [E EXCEPT !.brk = TRUE, !.pc = "done"]
        ELSE [E EXCEPT !.pc = "backoff"]

\* the loop goes on without the finally block
FinallySkipped(T) == NextIteration(T)

\* the finally block of an attempt that did not break: `if context:` the
\* context is closed before the loop goes on
Finally(T) ==
    IF T.ctx THEN [T EXCEPT !.pc = "closing"]
             ELSE NextIteration(T)

\* async with sem: the slot is taken
Acquire(k) ==
    /\ phase = "running"
    /\ task[k].pc = "wait"
    /\ SemAvailable(Held, threads)
    /\ IF rate_limit
       THEN /\ task' = [task EXCEPT ![k].pc = "rate"]
            /\ phase' = phase
       ELSE CallCapture(k)
    /\ UNCHANGED <<run_no, urls, resume, threads, retries, rate_limit,
                   json_exists, json_ok, results_json, done_urls,
                   previous_results,
                   pending_urls, results, last, counts>>
    /\ UNCHANGED offrun

\* await asyncio.sleep(rate_limit) returns
RateSleepDone(k) ==
    /\ phase = "running"
    /\ task[k].pc = "rate"
    /\ CallCapture(k)
    /\ UNCHANGED <<run_no, urls, resume, threads, retries, rate_limit,
                   json_exists, json_ok, results_json, done_urls,
                   previous_results,
                   pending_urls, results, last, counts>>
    /\ UNCHANGED offrun

\* await browser.new_context(...) returns or raises
NewContext(k, ok) ==
    /\ phase = "running"
    /\ task[k].pc = "newctx"
    /\ IF ok
       THEN /\ task' = [task EXCEPT ![k].pc = "page", ![k].ctx = TRUE,
                                    ![k].open = @ + 1]
            /\ phase' = phase
       ELSE IF Caught("ctx")
            THEN /\ task' = [task EXCEPT ![k] = Except(@)]
                 /\ phase' = phase
            ELSE /\ task' = Raised(k)
                 /\ phase' = "aborted"
    /\ UNCHANGED <<run_no, urls, resume, threads, retries, rate_limit,
                   json_exists, json_ok, results_json, done_urls,
                   previous_results,
                   pending_urls, results, last, counts>>
    /\ UNCHANGED offrun

\* the page steps of an attempt, lines 600-679: `step` is the first step
\* that raises ("nav": goto, "shot": screenshot, "hdr": all_headers) or "ok"
PageSteps(k, step, st) ==
    /\ phase = "running"
    /\ task[k].pc = "page"
    /\ IF step = "ok"
       THEN /\ task' = [task EXCEPT ![k].status = st,
                                    ![k].screenshot_taken = TRUE,
                                    ![k].title = PageTitle,
                                    ![k].techs = PageTechs,
                                    ![k].category = PageCategory,
                                    ![k].sec_grade = PageGrade,
                                    ![k].shot_written = TRUE,
                                    ![k].brk = TRUE,
                                    ![k].pc = "closing"]
            /\ phase' = phase
       ELSE IF Caught(step)
            THEN /\ task' = [task EXCEPT ![k] =
                        Except(IF step = "hdr"
                               THEN [@ EXCEPT !.title = PageTitle,
                                              !.shot_written = TRUE]
                               ELSE @)]
                 /\ phase' = phase
            ELSE /\ task' = Raised(k)
                 /\ phase' = "aborted"
    /\ UNCHANGED <<run_no, urls, resume, threads, retries, rate_limit,
                   json_exists, json_ok, results_json, done_urls,
                   previous_results,
                   pending_urls, results, last, counts>>
    /\ UNCHANGED offrun

\* await asyncio.sleep(0.3) in the except block returns; finally follows
BackoffDone(k) ==
    /\ phase = "running"
    /\ task[k].pc = "backoff"
    /\ task' = [task EXCEPT ![k] = Finally([@ EXCEPT !.backoffs = @ + 1])]
    /\ UNCHANGED <<phase, run_no, urls, resume, threads, retries, rate_limit,
                   json_exists, json_ok, results_json, done_urls,
                   previous_results,
                   pending_urls, results, last, counts>>
    /\ UNCHANGED offrun

\* await context.close() returns (or raises, which is swallowed)
CloseContext(k) ==
    /\ phase = "running"
    /\ task[k].pc = "closing"
    /\ LET T == [task[k] EXCEPT !.ctx = FALSE, !.open = @ - 1]
       IN  task' = [task EXCEPT ![k] =
                       IF T.brk THEN [T EXCEPT !.pc = "done"]
                                ELSE NextIteration(T)]
    /\ UNCHANGED <<phase, run_no, urls, resume, threads, retries, rate_limit,
                   json_exists, json_ok, results_json, done_urls,
                   previous_results,
                   pending_urls, results, last, counts>>
    /\ UNCHANGED offrun

\* ------------------------------------------------------- run_parallel
\* `if r.get("status") != "ERR"`: a prior entry counts as completed
EveryEntryDone(r) == TRUE
NotErrored(r) == Get(r, "status", 0) # ERR

\* r["url"] raises KeyError in the loop of lines 723-726
Unreadable(r) == NotErrored(r) /\ "url" \notin DOMAIN r

\* the entries the loop of lines 723-726 goes through before it ends or an
\* entry raises
ReadablePrefix(data) ==
    IF \E k \in DOMAIN data : Unreadable(data[k])
    THEN SubSeq(data, 1, (CHOOSE k \in DOMAIN data :
                             /\ Unreadable(data[k])
                             /\ \A j \in 1..(k - 1) : ~Unreadable(data[j])) - 1)
    ELSE data

\* `if u not in done_urls`: the target is dispatched
DispatchAll(u, done) == TRUE
IsPending(u, done) == u \notin done

\* [(i, u) for i, u in enumerate(urls) if u not in done_urls]
PendingOf(list, done) ==
    SelectSeq([k \in 1..Len(list) |-> <<k - 1, list[k]>>],
              LAMBDA p : IsPending(p[2], done))

\* the notes stamped from the status, lines 764-773
Notes(st) ==
    IF st = ERR THEN "Failed to load"
    ELSE IF 200 <= st /\ st < 400 THEN "Success"
    ELSE IF 400 <= st /\ st < 500 THEN "Client Error"
    ELSE "Server Error"

\* r["notes"] = ...
Stamp(r) == ("notes" :> Notes(r.status)) @@ r

\* the counter a status adds to, lines 764-773
Bucket(st) ==
    IF st = ERR THEN "fail"
    ELSE IF 200 <= st /\ st < 400 THEN "success"
    ELSE IF 400 <= st /\ st < 500 THEN "warn"
    ELSE "fail"

\* success = warn = fail = 0
NoCounts == [success |-> 0, warn |-> 0, fail |-> 0]

\* the loop of lines 764-773 over the sorted results
CountsOf(rs) ==
    [b \in {"success", "warn", "fail"} |->
        Cardinality({k \in DOMAIN rs : Bucket(rs[k].status) = b})]
StampAll(rs) == [k \in 1..Len(rs) |-> Stamp(rs[k])]

\* list.sort(key=index) is stable: x goes before the first element whose
\* index is not smaller
RECURSIVE InsertByIndex(_, _)
InsertByIndex(x, s) ==
    IF s = <<>> THEN <<x>>
    ELSE IF x.index <= Head(s).index THEN <<x>> \o s
    ELSE <<Head(s)>> \o InsertByIndex(x, Tail(s))

RECURSIVE SortByIndex(_)
SortByIndex(s) ==
    IF s = <<>> THEN <<>>
    ELSE InsertByIndex(Head(s), SortByIndex(Tail(s)))

\* asyncio.gather returns the tasks' results in the order of pending_urls
Gathered == [k \in 1..Len(pending_urls) |-> TaskResult(k)]

\* ------------------------------------------------------------ export_json
\* one entry of results.json; a result loaded from a prior results.json has
\* "screenshot" and no "screenshot_path"
ExportEntryNoCategory(r) ==
    [index |-> r.index, url |-> r.url, status |-> r.status,
     title |-> Get(r, "title", <<>>),
     techs |-> Get(r, "techs", <<>>),
     category |-> "",
     sec_grade |-> Get(r, "sec_grade", ""),
     diff_pct |-> Get(r, "diff_pct", 0),
     diff_heatmap |-> Get(r, "diff_heatmap", ""),
     diff_compare |-> Get(r, "diff_compare", ""),
     content_changes |-> Get(r, "content_changes", <<>>),
     diff_severity |-> Get(r, "diff_severity", ""),
     screenshot |-> Get(r, "screenshot_path", Get(r, "screenshot", <<>>)),
     notes |-> Get(r, "notes", "")]
ExportEntryNoFallback(r) ==
    [index |-> r.index, url |-> r.url, status |-> r.status,
     title |-> Get(r, "title", <<>>),
     techs |-> Get(r, "techs", <<>>),
     category |-> Get(r, "category", ""),
     sec_grade |-> Get(r, "sec_grade", ""),
     diff_pct |-> Get(r, "diff_pct", 0),
     diff_heatmap |-> Get(r, "diff_heatmap", ""),
     diff_compare |-> Get(r, "diff_compare", ""),
     content_changes |-> Get(r, "content_changes", <<>>),
     diff_severity |-> Get(r, "diff_severity", ""),
     screenshot |-> Get(r, "screenshot_path", <<>>),
     notes |-> Get(r, "notes", "")]
ExportEntryWrongTitleKey(r) ==
    [index |-> r.index, url |-> r.url, status |-> r.status,
     title |-> Get(r, "page_title", <<>>),
     techs |-> Get(r, "techs", <<>>),
     category |-> Get(r, "category", ""),
     sec_grade |-> Get(r, "sec_grade", ""),
     diff_pct |-> Get(r, "diff_pct", 0),
     diff_heatmap |-> Get(r, "diff_heatmap", ""),
     diff_compare |-> Get(r, "diff_compare", ""),
     content_changes |-> Get(r, "content_changes", <<>>),
     diff_severity |-> Get(r, "diff_severity", ""),
     screenshot |-> Get(r, "screenshot_path", Get(r, "screenshot", <<>>)),
     notes |-> Get(r, "notes", "")]
ExportEntry(r) ==
    [index |-> r.index, url |-> r.url, status |-> r.status,
     title |-> Get(r, "title", <<>>),
     techs |-> Get(r, "techs", <<>>),
     category |-> Get(r, "category", ""),
     sec_grade |-> Get(r, "sec_grade", ""),
     diff_pct |-> Get(r, "diff_pct", 0),
     diff_heatmap |-> Get(r, "diff_heatmap", ""),
     diff_compare |-> Get(r, "diff_compare", ""),
     content_changes |-> Get(r, "content_changes", <<>>),
     diff_severity |-> Get(r, "diff_severity", ""),
     screenshot |-> Get(r, "screenshot_path", Get(r, "screenshot", <<>>)),
     notes |-> Get(r, "notes", "")]

ExportJson(rs) == [k \in 1..Len(rs) |-> ExportEntry(rs[k])]

\* ------------------------------------------------------------------ main
\* main up to the first await of the workers: the arguments, the resume
\* bookkeeping of run_parallel (lines 715-733) and the creation of the tasks
StartRun(list, res, th, re, rl) ==
    /\ phase \in {"start", "aborted"}
    /\ run_no < MaxRuns
    /\ run_no' = run_no + 1
    /\ urls' = list
    /\ resume' = res
    /\ threads' = th
    /\ retries' = re
    /\ rate_limit' = rl
    /\ LET prev_data == IF res /\ json_exists /\ json_ok
                        THEN ReadablePrefix(results_json) ELSE <<>>
           prev == SelectSeq(prev_data, NotErrored)
           done == {r.url : r \in Range(prev)}
           pend == PendingOf(list, done)
       IN  /\ previous_results' = prev
           /\ done_urls' = done
           /\ pending_urls' = pend
           /\ task' = [k \in 1..Len(pend) |-> InitTask]
    /\ results' = <<>>
    /\ phase' = "running"
    /\ counts' = NoCounts
    /\ UNCHANGED <<json_exists, json_ok, results_json, last>>
    /\ UNCHANGED offrun

\* gather returns; lines 759-773: merge, sort, count and stamp the notes
Collect ==
    /\ phase = "running"
    /\ \A k \in Tasks : task[k].pc = "done"
    /\ LET merged == IF previous_results # <<>>
                     THEN previous_results \o Gathered
                     ELSE Gathered
           sorted == SortByIndex(merged)
       IN  /\ results' = StampAll(sorted)
           /\ counts' = CountsOf(sorted)
    /\ phase' = "returned"
    /\ UNCHANGED <<run_no, urls, resume, threads, retries, rate_limit,
                   json_exists, json_ok, results_json, done_urls,
                   previous_results,
                   pending_urls, task, last>>
    /\ UNCHANGED offrun

\* main after run_parallel and the diff pass, if any: the report is written,
\* then `if args.json or args.resume: export_json(...)`; then the process
\* ends and only the output directory is left
Export(json) ==
    /\ \/ phase = "returned" /\ ~diff_store.given
       \/ phase = "diffed"
    /\ IF json \/ resume
       THEN /\ results_json' = ExportJson(results)
            /\ json_exists' = TRUE
            /\ json_ok' = TRUE
            /\ last' = [urls |-> urls, results |-> results]
       ELSE UNCHANGED <<results_json, json_exists, json_ok, last>>
    /\ phase' = "start"
    /\ urls' = <<>>
    /\ resume' = FALSE
    /\ threads' = 1
    /\ retries' = 0
    /\ rate_limit' = FALSE
    /\ done_urls' = {}
    /\ previous_results' = <<>>
    /\ pending_urls' = <<>>
    /\ task' = <<>>
    /\ results' = <<>>
    /\ counts' = NoCounts
    /\ UNCHANGED run_no
    /\ UNCHANGED offrun

\* no --diff; the diff pass has not run
NoDiffStore == [given |-> FALSE, isfile |-> FALSE, json_ok |-> FALSE, data |-> <<>>]
NoDiffCounts == [critical |-> 0, high |-> 0, medium |-> 0, low |-> 0,
                 new |-> 0, unchanged |-> 0]
DiffNotStarted ==
    /\ prev_by_url = <<>>
    /\ diff_i = 0
    /\ n_diff = NoDiffCounts
NoDiff ==
    /\ diff_store = NoDiffStore
    /\ DiffNotStarted

\* no function is called on its own
NoCall == [fn |-> ""]
NoRet == [done |-> FALSE]
NoPure ==
    /\ call = NoCall
    /\ ret = NoRet

\* main has not been started
NotRunning ==
    /\ phase = "start"
    /\ run_no = 0
    /\ urls = <<>>
    /\ resume = FALSE
    /\ threads = 1
    /\ retries = 0
    /\ rate_limit = FALSE
    /\ json_exists = FALSE
    /\ json_ok = FALSE
    /\ results_json = <<>>
    /\ done_urls = {}
    /\ previous_results = <<>>
    /\ pending_urls = <<>>
    /\ task = <<>>
    /\ results = <<>>
    /\ last = [urls |-> <<>>, results |-> <<>>]
    /\ counts = NoCounts
    /\ NoDiff

Init ==
    /\ NotRunning
    /\ NoPure

Next ==
    \/ \E list \in TargetLists, res \in BOOLEAN, th \in 1..MaxThreads,
          re \in 0..MaxRetries, rl \in BOOLEAN :
          StartRun(list, res, th, re, rl)
    \/ \E k \in Tasks : Acquire(k)
    \/ \E k \in Tasks : RateSleepDone(k)
    \/ \E k \in Tasks, ok \in BOOLEAN : NewContext(k, ok)
    \/ \E k \in Tasks, step \in {"nav", "shot", "hdr", "ok"},
          st \in StatusCodes : PageSteps(k, step, st)
    \/ \E k \in Tasks : BackoffDone(k)
    \/ \E k \in Tasks : CloseContext(k)
    \/ Collect
    \/ \E json \in BOOLEAN : Export(json)

Spec == Init /\ [][Next]_vars

\* ======================================================== properties
InRun == phase \in {"running", "returned", "aborted"}
Returned == phase = "returned"

TargetUrls == Range(urls)
DispatchedUrls == {pending_urls[k][2] : k \in DOMAIN pending_urls}
InFlightTasks == {k \in Tasks : InFlight(k)}

\* position of a target in the target list, from 1
Pos(u) == CHOOSE k \in DOMAIN urls : urls[k] = u

\* the resume record was read: --resume and results.json is there
Loaded == InRun /\ resume /\ json_exists
PriorDoneUrls == {e.url : e \in {x \in Range(results_json) : x.status # ERR}}

\* a result of the output that was taken over from the prior record
Reused(r) == r.url \in done_urls

\* the screenshot reference of a result, as export_json and the report read it
ShotRef(r) == Get(r, "screenshot_path", Get(r, "screenshot", <<>>))

\* two results agree on every observation both forms of a result carry
SameResult(r, q) ==
    /\ r.index = q.index
    /\ r.url = q.url
    /\ r.status = q.status
    /\ Get(r, "title", <<>>) = Get(q, "title", <<>>)
    /\ Get(r, "notes", "") = Get(q, "notes", "")
    /\ ShotRef(r) = ShotRef(q)

SameResults(rs, qs) ==
    /\ Len(rs) = Len(qs)
    /\ \A k \in 1..Len(rs) : SameResult(rs[k], qs[k])

\* C1: at every moment the number of captures in flight (capture_page called
\* and not yet returned) is at most the thread count, whatever the length of
\* the target list.
C1_InFlightBounded == Cardinality(InFlightTasks) <= threads

\* C1 witness: the pool is full and a further target is waiting for a slot
C1_Witness ==
    /\ phase = "running"
    /\ Cardinality(InFlightTasks) = threads
    /\ \E k \in Tasks : task[k].pc = "wait"

\* C2 (as claimed): the returned sequence is sorted by index, and of any two
\* results for targets the one whose URL is earlier in the target list comes
\* first; with or without resume.
C2_InputOrder ==
    Returned =>
        /\ \A i, j \in DOMAIN results :
              i < j => results[i].index <= results[j].index
        /\ \A i, j \in DOMAIN results :
              (/\ results[i].url \in TargetUrls
               /\ results[j].url \in TargetUrls
               /\ Pos(results[i].url) < Pos(results[j].url)) => i < j

\* C3 (as claimed): the length of the returned sequence is the number of
\* targets, for every prior run record.
C3_LengthIsTargets == Returned => Len(results) = Len(urls)

\* C4 (as claimed): once a target has failed on every one of its attempts the
\* run is not aborted, and when run_parallel returns the output has a result
\* for every target URL.
C4_FailureNeverAborts ==
    (\E k \in Tasks : /\ task[k].pc = "done"
                      /\ task[k].status = ERR
                      /\ task[k].fails = retries + 1)
    => /\ phase # "aborted"
       /\ Returned => \A u \in TargetUrls :
                         \E j \in DOMAIN results : results[j].url = u

\* C5: with resume and a readable prior record, a target is dispatched iff
\* its URL is not among the record's non-errored entries; a target that is
\* among them has no task and its prior result is in the output, unchanged,
\* with its prior index.
C5_ResumeSkipsDone ==
    Loaded =>
        /\ \A u \in TargetUrls : (u \in DispatchedUrls) <=> (u \notin PriorDoneUrls)
        /\ Returned =>
              \A e \in Range(results_json) :
                  (e.status # ERR /\ e.url \in TargetUrls) =>
                      \E j \in DOMAIN results :
                          results[j] = e /\ results[j].index = e.index

\* C5 witness: a resumed run returned with one target skipped, one dispatched
C5_Witness ==
    /\ Returned /\ Loaded
    /\ \E u \in TargetUrls : u \in PriorDoneUrls
    /\ \E u \in TargetUrls : u \in DispatchedUrls

\* C6: a prior record contributes only entries that are not error-marked:
\* nothing error-marked is taken over, every target whose prior entry is
\* error-marked is dispatched again, and every error-marked result of the
\* output was captured in this run.
C6_OnlyNonErroredReused ==
    Loaded =>
        /\ \A k \in DOMAIN previous_results : previous_results[k].status # ERR
        /\ \A e \in Range(results_json) :
              (e.status = ERR /\ e.url \in TargetUrls) =>
                  e.url \in DispatchedUrls
        /\ Returned =>
              \A j \in DOMAIN results :
                  results[j].status = ERR =>
                      "screenshot_taken" \in DOMAIN results[j]

\* C6 witness: a resumed run returned whose prior record had an errored target
C6_Witness ==
    /\ Returned /\ Loaded
    /\ \E e \in Range(results_json) : e.status = ERR /\ e.url \in TargetUrls

\* the second of two runs over the same targets, the first persisted, the
\* second resumed, has returned
SecondRun == Returned /\ resume /\ json_exists /\ last.urls = urls
FirstNonErrored == SelectSeq(last.results, LAMBDA r : r.status # ERR)

C9_NeverRaises ==
    \A k \in Tasks :
        /\ task[k].pc # "raised"
        /\ (task[k].pc = "done" /\ task[k].fails = task[k].attempt) =>
              /\ TaskResult(k).status = ERR
              /\ TaskResult(k).url = pending_urls[k][2]
              /\ TaskResult(k).index = pending_urls[k][1] + 1

\* C10: at most retries + 1 attempts; an attempt after the first is under way
\* only when all earlier attempts failed and each was followed by a backoff;
\* a success is the last attempt; when every attempt fails there are exactly
\* retries + 1 attempts and retries backoffs, none after the last attempt.
C10_AttemptBudget ==
    \A k \in Tasks :
        LET T == task[k]
        IN  /\ T.attempt <= retries + 1
            /\ T.backoffs <= retries
            /\ T.pc \in {"newctx", "page"} =>
                  /\ T.fails = T.attempt - 1
                  /\ T.backoffs = T.attempt - 1
            /\ (T.pc = "done" /\ T.status # ERR) =>
                  /\ T.fails = T.attempt - 1
                  /\ T.backoffs = T.attempt - 1
            /\ (T.pc = "done" /\ T.status = ERR) =>
                  /\ T.attempt = retries + 1
                  /\ T.fails = retries + 1
                  /\ T.backoffs = retries

\* C10 witness: a capture returned after failing retries + 1 >= 2 attempts
C10_Witness ==
    \E k \in Tasks :
        /\ task[k].pc = "done"
        /\ task[k].status = ERR
        /\ retries >= 1
        /\ task[k].attempt = retries + 1
        /\ task[k].backoffs = retries

\* capture_page returned after every one of its retries + 1 attempts failed
Exhausted(k) ==
    /\ task[k].pc = "done"
    /\ task[k].fails = retries + 1

\* C11: a capture that exhausts all of its retries returns one result with
\* the error status marker and no screenshot reference, so that it cannot
\* reference an image file a failed attempt left behind.
C11_ExhaustedHasNoScreenshotRef ==
    \A k \in Tasks :
        Exhausted(k) =>
            /\ TaskResult(k).status = ERR
            /\ ShotRef(TaskResult(k)) = <<>>

\* ============================================ classification (lines 763-773)
\* statuses a capture can return: the error marker, 0 for a navigation
\* without a response (line 632), and response codes on and next to the
\* boundaries the classification tests
StatusSamples == {ERR, 0, 101, 199, 200, 301, 399, 400, 404, 499, 500, 599, 600, 999}

\* the dict capture_page returns for target k of `list` with status st
CapturedResult(list, k, st) ==
    [index |-> k, url |-> list[k], status |-> st,
     screenshot_taken |-> (st # ERR),
     screenshot_path |-> ScreenshotPath(k, list[k]),
     title |-> IF st = ERR THEN <<>> ELSE PageTitle,
     techs |-> IF st = ERR THEN <<>> ELSE PageTechs,
     category |-> IF st = ERR THEN "" ELSE PageCategory,
     sec_grade |-> IF st = ERR THEN "F" ELSE PageGrade]

\* run_parallel at line 762: the captures of a target list are gathered and
\* sorted, nothing is classified yet
ClassifyInit ==
    /\ phase = "sorted"
    /\ run_no = 1
    /\ urls \in {l \in TargetLists : \A k \in DOMAIN l : Parseable(l[k])}
    /\ resume = FALSE
    /\ threads = 1
    /\ retries = 0
    /\ rate_limit = FALSE
    /\ json_exists = FALSE
    /\ json_ok = FALSE
    /\ results_json = <<>>
    /\ done_urls = {}
    /\ previous_results = <<>>
    /\ pending_urls = <<>>
    /\ task = <<>>
    /\ results \in {[k \in DOMAIN urls |-> CapturedResult(urls, k, sts[k])] :
                       sts \in [DOMAIN urls -> StatusSamples]}
    /\ last = [urls |-> <<>>, results |-> <<>>]
    /\ counts = NoCounts
    /\ NoPure
    /\ NoDiff

\* lines 763-773: count every result and stamp its notes
Classify ==
    /\ phase = "sorted"
    /\ results' = StampAll(results)
    /\ counts' = CountsOf(results)
    /\ phase' = "returned"
    /\ UNCHANGED <<run_no, urls, resume, threads, retries, rate_limit,
                   json_exists, json_ok, results_json, done_urls,
                   previous_results,
                   pending_urls, task, last>>
    /\ UNCHANGED offrun

ClassifyNext == Classify

SpecClassify == ClassifyInit /\ [][ClassifyNext]_vars

\* results whose status lies in lo..hi
InRange(lo, hi) ==
    {k \in DOMAIN results : results[k].status # ERR
                            /\ lo <= results[k].status
                            /\ results[k].status <= hi}
Errored == {k \in DOMAIN results : results[k].status = ERR}

\* C12: after collection every result is counted in exactly one bucket and
\* stamped from its status alone: 2xx/3xx success and "Success", 4xx warning
\* and "Client Error", 5xx failure and "Server Error", the error marker
\* failure and "Failed to load"; nothing but a 5xx status is stamped
\* "Server Error".
C12_ClassifiedByStatus ==
    Returned =>
        /\ counts.success + counts.warn + counts.fail = Len(results)
        /\ counts.success = Cardinality(InRange(200, 399))
        /\ counts.warn = Cardinality(InRange(400, 499))
        /\ \A k \in InRange(200, 399) : results[k].notes = "Success"
        /\ \A k \in InRange(400, 499) : results[k].notes = "Client Error"
        /\ \A k \in InRange(500, 599) : results[k].notes = "Server Error"
        /\ \A k \in Errored : results[k].notes = "Failed to load"
        /\ \A k \in DOMAIN results :
              results[k].notes = "Server Error" => k \in InRange(500, 599)

\* ================================ calculate_diff_severity (lines 436-447)
\* Percentages are kept in tenths of a percent, the precision diff_pct has
\* (round(.., 1), line 353): 500 is 50.0, 5 is 0.5, -10 is the -1.0 of an
\* unavailable visual diff.
MaxChanges == 2

PctSamples == {-10, 0, 5, 6, 10, 50, 51, 100, 300, 301, 350, 500, 501, 600, 1000}

\* content changes by field and severity, as compute_content_diff makes them
ChangeSamples ==
    {[field |-> "Status", severity |-> "high"],
     [field |-> "Title", severity |-> "medium"],
     [field |-> "Category", severity |-> "high"],
     [field |-> "Category", severity |-> "medium"],
     [field |-> "Grade", severity |-> "medium"],
     [field |-> "Tech", severity |-> "low"]}

ChangeLists == UNION {[1..n -> ChangeSamples] : n \in 0..MaxChanges}

\* any(c.get("severity") == "high" for c in content_changes)
has_high(content_changes) ==
    \E k \in DOMAIN content_changes :
        Get(content_changes[k], "severity", "") = "high"

\* the high rule tested before the critical rule
calculate_diff_severity_HighFirst(visual_pct, content_changes) ==
    IF visual_pct > 300 \/ has_high(content_changes) THEN "high"
    ELSE IF visual_pct > 500 /\ has_high(content_changes) THEN "critical"
    ELSE IF visual_pct > 50 \/ content_changes # <<>> THEN "medium"
    ELSE IF visual_pct > 5 THEN "low"
    ELSE "none"

\* the medium rule looks at the visual percent only
calculate_diff_severity_VisualOnly(visual_pct, content_changes) ==
    IF visual_pct > 500 /\ has_high(content_changes) THEN "critical"
    ELSE IF visual_pct > 300 \/ has_high(content_changes) THEN "high"
    ELSE IF visual_pct > 50 THEN "medium"
    ELSE IF visual_pct > 5 THEN "low"
    ELSE "none"

\* a visual percent that is not positive counts as a full change
calculate_diff_severity_Unsigned(visual_pct, content_changes) ==
    LET pct == IF visual_pct < 0 THEN 1000 ELSE visual_pct
    IN  IF pct > 500 /\ has_high(content_changes) THEN "critical"
        ELSE IF pct > 300 \/ has_high(content_changes) THEN "high"
        ELSE IF pct > 50 \/ content_changes # <<>> THEN "medium"
        ELSE IF pct > 5 THEN "low"
        ELSE "none"

calculate_diff_severity(visual_pct, content_changes) ==
    IF visual_pct > 500 /\ has_high(content_changes) THEN "critical"
    ELSE IF visual_pct > 300 \/ has_high(content_changes) THEN "high"
    ELSE IF visual_pct > 50 \/ content_changes # <<>> THEN "medium"
    ELSE IF visual_pct > 5 THEN "low"
    ELSE "none"

SeverityInit ==
    /\ NotRunning
    /\ call \in {[fn |-> "calculate_diff_severity",
                  args |-> [visual_pct |-> p, content_changes |-> cc]] :
                    p \in PctSamples, cc \in ChangeLists}
    /\ ret = NoRet

SeverityReturn ==
    /\ call.fn = "calculate_diff_severity"
    /\ ~ret.done
    /\ ret' = [done |-> TRUE,
               value |-> calculate_diff_severity(call.args.visual_pct,
                                                 call.args.content_changes)]
    /\ UNCHANGED <<call, runvars>>

SeverityNext == SeverityReturn

SpecSeverity == SeverityInit /\ [][SeverityNext]_vars

SeverityReturned == call.fn = "calculate_diff_severity" /\ ret.done

\* C14: calculate_diff_severity is a priority cascade, the first matching
\* rule wins: critical iff percent > 50 and some change is high; else high
\* iff percent > 30 or some change is high; else medium iff percent > 5 or
\* the list is non-empty; else low iff percent > 0.5; else none.  (60, one
\* high change) is critical, (35, none) high, (10, none) medium, (1, none)
\* low, (0, none) none, and a percent above 50 without a high change is not
\* critical.
C14_SeverityCascade ==
    SeverityReturned =>
        LET p == call.args.visual_pct
            cc == call.args.content_changes
            hh == \E k \in DOMAIN cc : cc[k].severity = "high"
            v == ret.value
            r1 == p > 500 /\ hh
            r2 == p > 300 \/ hh
            r3 == p > 50 \/ Len(cc) > 0
            r4 == p > 5
        IN  /\ v \in {"critical", "high", "medium", "low", "none"}
            /\ v = "critical" <=> r1
            /\ v = "high" <=> ~r1 /\ r2
            /\ v = "medium" <=> ~r1 /\ ~r2 /\ r3
            /\ v = "low" <=> ~r1 /\ ~r2 /\ ~r3 /\ r4
            /\ v = "none" <=> ~r1 /\ ~r2 /\ ~r3 /\ ~r4
            /\ p = 600 /\ Len(cc) = 1 /\ hh => v = "critical"
            /\ p = 350 /\ cc = <<>> => v = "high"
            /\ p = 100 /\ cc = <<>> => v = "medium"
            /\ p = 10 /\ cc = <<>> => v = "low"
            /\ p = 0 /\ cc = <<>> => v = "none"
            /\ p > 500 /\ ~hh => v # "critical"

\* C14 witness: 60 percent with one high change was classified critical
C14_Witness ==
    /\ SeverityReturned
    /\ call.args.visual_pct = 600
    /\ call.args.content_changes = <<[field |-> "Status", severity |-> "high"]>>
    /\ ret.value = "critical"

\* =================================== compute_content_diff (lines 402-433)
\* `[:60]` of a title
TitleLimit == 60

\* titles are sequences of characters
Pad == [i \in 1..TitleLimit |-> "x"]
TitleSamples == {<<>>, Pad \o <<"a">>, Pad \o <<"b">>}

StatusFieldSamples == {ERR, 200}
CategorySamples == {"", "Login Page", "Admin Panel", "WAF/Firewall", "API Docs"}
GradeSamples == {"A", "F"}
TechSamples == {<<>>, <<"Nginx", "PHP">>, <<"PHP", "Nginx">>}

\* the fields of a result compute_content_diff reads
ResultSamples ==
    [status : StatusFieldSamples, title : TitleSamples,
     category : CategorySamples, sec_grade : GradeSamples,
     techs : TechSamples]

\* str(status)
Str(st) == IF st = ERR THEN "ERR" ELSE ToString(st)

\* title taken whole
Untruncated(title) == title

\* title[:60]
Truncated(title) == SubSeq(title, 1, IF Len(title) < TitleLimit
                                     THEN Len(title) ELSE TitleLimit)

\* `x or placeholder`
Shown(x, empty, placeholder) == IF x = empty THEN placeholder ELSE x

\* the severity decided by the old category
CategorySeverityByOld(old_cat, new_cat) ==
    IF old_cat \in {"Login Page", "Admin Panel", "WAF/Firewall"}
    THEN "high" ELSE "medium"

\* sev = "high" if new_cat in (...) else "medium"
CategorySeverity(old_cat, new_cat) ==
    IF new_cat \in {"Login Page", "Admin Panel", "WAF/Firewall"}
    THEN "high" ELSE "medium"

compute_content_diff(old_result, new_result) ==
    LET old_st == Str(Get(old_result, "status", ""))
        new_st == Str(Get(new_result, "status", ""))
        old_title == Truncated(Get(old_result, "title", <<>>))
        new_title == Truncated(Get(new_result, "title", <<>>))
        old_cat == Get(old_result, "category", "")
        new_cat == Get(new_result, "category", "")
        old_grade == Get(old_result, "sec_grade", "")
        new_grade == Get(new_result, "sec_grade", "")
        old_techs == Range(Get(old_result, "techs", <<>>))
        new_techs == Range(Get(new_result, "techs", <<>>))
        added == new_techs \ old_techs
        removed == old_techs \ new_techs
    IN  (IF old_st # new_st
         THEN <<[field |-> "Status", old |-> old_st, new |-> new_st,
                 severity |-> "high"]>>
         ELSE <<>>)
        \o
        (IF old_title # new_title
         THEN <<[field |-> "Title",
                 old |-> Shown(old_title, <<>>, <<"(empty)">>),
                 new |-> Shown(new_title, <<>>, <<"(empty)">>),
                 severity |-> "medium"]>>
         ELSE <<>>)
        \o
        (IF old_cat # new_cat
         THEN <<[field |-> "Category",
                 old |-> Shown(old_cat, "", "-"),
                 new |-> Shown(new_cat, "", "-"),
                 severity |-> CategorySeverity(old_cat, new_cat)]>>
         ELSE <<>>)
        \o
        (IF old_grade # new_grade
         THEN <<[field |-> "Grade",
                 old |-> Shown(old_grade, "", "-"),
                 new |-> Shown(new_grade, "", "-"),
                 severity |-> "medium"]>>
         ELSE <<>>)
        \o
        (IF added # {} \/ removed # {}
         THEN <<[field |-> "Tech",
                 old |-> Shown(old_techs, {}, {"-"}),
                 new |-> [added |-> added, removed |-> removed],
                 severity |-> "low"]>>
         ELSE <<>>)

ContentDiffInit ==
    /\ NotRunning
    /\ call \in {[fn |-> "compute_content_diff",
                  args |-> [old_result |-> o, new_result |-> n]] :
                    o \in ResultSamples, n \in ResultSamples}
    /\ ret = NoRet

ContentDiffReturn ==
    /\ call.fn = "compute_content_diff"
    /\ ~ret.done
    /\ ret' = [done |-> TRUE,
               value |-> compute_content_diff(call.args.old_result,
                                              call.args.new_result)]
    /\ UNCHANGED <<call, runvars>>

ContentDiffNext == ContentDiffReturn

SpecContentDiff == ContentDiffInit /\ [][ContentDiffNext]_vars

ContentDiffReturned == call.fn = "compute_content_diff" /\ ret.done

\* place of a field in the order Status, Title, Category, Grade, Tech
FieldRank(f) ==
    CASE f = "Status" -> 1 [] f = "Title" -> 2 [] f = "Category" -> 3
      [] f = "Grade" -> 4 [] f = "Tech" -> 5 [] OTHER -> 0

\* the returned list has a change for field f
Changed(f) == \E k \in DOMAIN ret.value : ret.value[k].field = f

\* the first n characters of a title
FirstChars(t, n) == [i \in 1..(IF Len(t) < n THEN Len(t) ELSE n) |-> t[i]]

\* C15: compute_content_diff returns at most one change per field, in the
\* order Status, Title, Category, Grade, Tech; the change of a field is
\* present iff the field differs between the two results, titles being
\* compared on their first 60 characters and technologies as sets, with all
\* additions and removals reported in one Tech change.
C15_OneChangePerDifferingField ==
    ContentDiffReturned =>
        LET o == call.args.old_result
            n == call.args.new_result
            v == ret.value
        IN  /\ \A k \in DOMAIN v : FieldRank(v[k].field) > 0
            /\ \A i, j \in DOMAIN v :
                  i < j => FieldRank(v[i].field) < FieldRank(v[j].field)
            /\ Changed("Status") <=> o.status # n.status
            /\ Changed("Title") <=>
                  FirstChars(o.title, 60) # FirstChars(n.title, 60)
            /\ Changed("Category") <=> o.category # n.category
            /\ Changed("Grade") <=> o.sec_grade # n.sec_grade
            /\ Changed("Tech") <=>
                  {o.techs[i] : i \in DOMAIN o.techs}
                      # {n.techs[i] : i \in DOMAIN n.techs}
            /\ \A k \in DOMAIN v :
                  v[k].field = "Tech" =>
                      /\ v[k].new.added =
                            {x \in {n.techs[i] : i \in DOMAIN n.techs} :
                                \A i \in DOMAIN o.techs : o.techs[i] # x}
                      /\ v[k].new.removed =
                            {x \in {o.techs[i] : i \in DOMAIN o.techs} :
                                \A i \in DOMAIN n.techs : n.techs[i] # x}

\* C15 witness: status, category and grade differ, the titles differ only
\* after character 60 and two technologies were added; four changes came
\* back, none for the title and one for both technologies
C15_Witness ==
    /\ ContentDiffReturned
    /\ call.args.old_result.title # call.args.new_result.title
    /\ Len(ret.value) = 4
    /\ ret.value[4].field = "Tech"
    /\ Cardinality(ret.value[4].new.added) = 2

\* C16: every change has the severity fixed by its field: Status high,
\* Title medium, Grade medium, Tech low, and Category high exactly when the
\* new category is Login Page, Admin Panel or WAF/Firewall, medium
\* otherwise, whatever the old category was.
C16_SeverityByField ==
    ContentDiffReturned =>
        \A k \in DOMAIN ret.value :
            LET c == ret.value[k]
                new_cat == call.args.new_result.category
            IN  /\ c.field = "Status" => c.severity = "high"
                /\ c.field = "Title" => c.severity = "medium"
                /\ c.field = "Grade" => c.severity = "medium"
                /\ c.field = "Tech" => c.severity = "low"
                /\ c.field = "Category" =>
                      /\ c.severity \in {"high", "medium"}
                      /\ c.severity = "high" <=>
                            new_cat \in {"Login Page", "Admin Panel",
                                         "WAF/Firewall"}

\* C16 witness: the category changed from Login Page to API Docs and the
\* change is medium
C16_Witness ==
    /\ ContentDiffReturned
    /\ call.args.old_result.category = "Login Page"
    /\ call.args.new_result.category = "API Docs"
    /\ \E k \in DOMAIN ret.value :
          ret.value[k].field = "Category" /\ ret.value[k].severity = "medium"

\* ================================ compute_screenshot_diff (lines 323-399)
\* Images are arrays of pixels; a pixel is one value 0..255, the value its
\* three channels share (convert("L") of a pixel with R = G = B = v is v).
\* block = 8
Block == 8

Solid(w, h, v) ==
    [w |-> w, h |-> h, px |-> [c \in (0..(w - 1)) \X (0..(h - 1)) |-> v]]

\* the columns of the first block have value v, the others 0
LeftBlock(w, h, v) ==
    [w |-> w, h |-> h,
     px |-> [c \in (0..(w - 1)) \X (0..(h - 1)) |->
                IF c[1] < Block THEN v ELSE 0]]

\* one pixel of value v on black
Spot(w, h, v) ==
    [w |-> w, h |-> h,
     px |-> [c \in (0..(w - 1)) \X (0..(h - 1)) |->
                IF c = <<0, 0>> THEN v ELSE 0]]

ImageSamples ==
    {Solid(8, 8, 0), Solid(8, 8, 255), Solid(4, 4, 200), Solid(16, 8, 0),
     Spot(8, 8, 255), Spot(8, 8, 16), LeftBlock(16, 8, 10),
     LeftBlock(16, 8, 11)}

\* what Image.open finds at a path: an image, or nothing it can decode
FileSamples ==
    {[ok |-> TRUE, img |-> i] : i \in ImageSamples} \cup {[ok |-> FALSE]}

\* --diff-threshold is any integer
ThresholdSamples == {-1, 0, 10, 255}

Abs(x) == IF x < 0 THEN -x ELSE x

\* img.resize(size, LANCZOS), sampled at the nearest source pixel (equal to
\* LANCZOS on images of one colour)
Resize(img, w, h) ==
    [w |-> w, h |-> h,
     px |-> [c \in (0..(w - 1)) \X (0..(h - 1)) |->
                img.px[<<(c[1] * img.w) \div w, (c[2] * img.h) \div h>>]]]

\* ImageChops.difference(a, b).convert("L")
Difference(a, b) ==
    [w |-> a.w, h |-> a.h,
     px |-> [c \in DOMAIN a.px |-> Abs(a.px[c] - b.px[c])]]

RECURSIVE SumPx(_, _)
SumPx(px, S) ==
    IF S = {} THEN 0
    ELSE LET c == CHOOSE x \in S : TRUE
         IN  px[c] + SumPx(px, S \ {c})

\* n / d rounded to the nearest integer, halves up (8-bit resampling)
RoundHalfUp(n, d) == (2 * n + d) \div (2 * d)

\* round(n / d) of Python: halves to the even neighbour
RoundHalfEven(n, d) ==
    LET q == n \div d
        r == n % d
    IN  IF 2 * r < d THEN q
        ELSE IF 2 * r > d THEN q + 1
        ELSE IF q % 2 = 0 THEN q ELSE q + 1

Max(a, b) == IF a > b THEN a ELSE b

\* the size of `small` and of the boxes of `gray` its pixels stand for
SmallW(gray) == Max(gray.w \div Block, 1)
SmallH(gray) == Max(gray.h \div Block, 1)
BoxW(gray) == gray.w \div SmallW(gray)
BoxH(gray) == gray.h \div SmallH(gray)
Blocks(gray) == (0..(SmallW(gray) - 1)) \X (0..(SmallH(gray) - 1))
BoxCols(gray, X) == (X * BoxW(gray))..(X * BoxW(gray) + BoxW(gray) - 1)
BoxRows(gray, Y) == (Y * BoxH(gray))..(Y * BoxH(gray) + BoxH(gray) - 1)

\* gray.resize((max(w // block, 1), max(h // block, 1)), Image.BOX): every
\* pixel of the result is the mean of its box of the source.  The resize
\* runs a horizontal pass and then a vertical pass, and each pass stores
\* 8-bit pixels, so the mean is rounded to an integer twice.
BoxDownscale(gray) ==
    LET horizontal ==
            [c \in (0..(SmallW(gray) - 1)) \X (0..(gray.h - 1)) |->
                RoundHalfUp(SumPx(gray.px, BoxCols(gray, c[1]) \X {c[2]}),
                            BoxW(gray))]
    IN  [w |-> SmallW(gray), h |-> SmallH(gray),
         px |-> [c \in Blocks(gray) |->
                    RoundHalfUp(SumPx(horizontal, {c[1]} \X BoxRows(gray, c[2])),
                                BoxH(gray))]]

\* p >= threshold
AtLeast(p, threshold) == p >= threshold

\* p > threshold
Exceeds(p, threshold) == p > threshold

\* the new image brought to the size of the old one when the sizes differ,
\* then ImageChops.difference(img_old, img_new).convert("L")
Gray(img_old, new) ==
    LET img_new == IF <<img_old.w, img_old.h>> # <<new.w, new.h>>
                   THEN Resize(new, img_old.w, img_old.h)
                   ELSE new
    IN  Difference(img_old, img_new)

\* the triple returned when the comparison is unavailable
Unavailable == [diff_pct |-> -10, heatmap |-> "", compare |-> ""]

\* has_pil: Pillow was imported; save_ok: heatmap.save and canvas.save
\* succeed.  diff_pct is in tenths of a percent.
compute_screenshot_diff(old_file, new_file, index, threshold, has_pil, save_ok) ==
    IF ~has_pil THEN Unavailable
    ELSE IF ~old_file.ok \/ ~new_file.ok THEN Unavailable
    ELSE
        LET gray == Gray(old_file.img, new_file.img)
            small == BoxDownscale(gray)
            changed_blocks ==
                Cardinality({c \in DOMAIN small.px :
                                Exceeds(small.px[c], threshold)})
            total_blocks == Cardinality(DOMAIN small.px)
            diff_pct == IF total_blocks # 0
                        THEN RoundHalfEven(changed_blocks * 1000, total_blocks)
                        ELSE 0
        IN  IF diff_pct > 5
            THEN IF save_ok
                 THEN [diff_pct |-> diff_pct,
                       heatmap |-> <<"diffs", index, "heatmap">>,
                       compare |-> <<"diffs", index, "compare">>]
                 ELSE Unavailable
            ELSE [diff_pct |-> diff_pct, heatmap |-> "", compare |-> ""]

VisualDiffInit ==
    /\ NotRunning
    /\ call \in {[fn |-> "compute_screenshot_diff",
                  args |-> [old_file |-> o, new_file |-> n, index |-> 1,
                            threshold |-> t, has_pil |-> p, save_ok |-> s]] :
                    o \in FileSamples, n \in FileSamples,
                    t \in ThresholdSamples, p \in BOOLEAN, s \in BOOLEAN}
    /\ ret = NoRet

VisualDiffReturn ==
    /\ call.fn = "compute_screenshot_diff"
    /\ ~ret.done
    /\ ret' = [done |-> TRUE,
               value |-> compute_screenshot_diff(
                             call.args.old_file, call.args.new_file,
                             call.args.index, call.args.threshold,
                             call.args.has_pil, call.args.save_ok)]
    /\ UNCHANGED <<call, runvars>>

VisualDiffNext == VisualDiffReturn

SpecVisualDiff == VisualDiffInit /\ [][VisualDiffNext]_vars

VisualDiffReturned == call.fn = "compute_screenshot_diff" /\ ret.done

\* both files were decoded with Pillow
Compared == call.args.has_pil /\ call.args.old_file.ok /\ call.args.new_file.ok

\* C17: visual diff identity: an image compared with itself gives percent 0
\* for every threshold >= 0, and no visualization artifact.
C17_VisualDiffIdentity ==
    /\ VisualDiffReturned
    /\ Compared
    /\ call.args.old_file = call.args.new_file
    /\ call.args.threshold >= 0
    => /\ ret.value.diff_pct = 0
       /\ ret.value.heatmap = ""
       /\ ret.value.compare = ""

\* C17 witness: an image that is not of one colour was compared with itself
\* at threshold 0 and the percent is 0
C17_Witness ==
    /\ VisualDiffReturned
    /\ Compared
    /\ call.args.old_file = call.args.new_file
    /\ call.args.old_file.img = LeftBlock(16, 8, 11)
    /\ call.args.threshold = 0
    /\ ret.value.diff_pct = 0

\* ======================================= main, diff pass (lines 1005-1082)
\* --diff-threshold, default
DefaultThreshold == 10

\* a screenshot file on disk: absent, present and undecodable, or an image
ScreenshotFiles ==
    {[exists |-> FALSE, ok |-> FALSE],
     [exists |-> TRUE, ok |-> FALSE],
     [exists |-> TRUE, ok |-> TRUE, img |-> Solid(2, 2, 0)],
     [exists |-> TRUE, ok |-> TRUE, img |-> Solid(2, 2, 255)]}

\* os.path.isfile(os.path.join(dir, path)): with no path the directory
\* itself is tested
IsFile(path, file) == path # <<>> /\ file.exists

\* an entry of a previous results.json for url u
PrevEntry(u, st, cat) ==
    [category |-> cat] @@
    ExportEntry(Stamp(CapturedResult([k \in {1} |-> u], 1, st)))

\* an entry without "url"
NoUrlEntry == [index |-> 1, status |-> 200]

PrevEntries ==
    {PrevEntry(u, st, PageCategory) : u \in {"http://a", "http://a/b"}, st \in {200, 500}}
        \cup {PrevEntry("http://a", 200, "")}
        \cup {NoUrlEntry}

\* what --diff points to: no results.json, one json.load cannot parse, or
\* a list of entries
DiffStores ==
    {[given |-> TRUE, isfile |-> FALSE, json_ok |-> FALSE, data |-> <<>>],
     [given |-> TRUE, isfile |-> TRUE, json_ok |-> FALSE, data |-> <<>>]}
        \cup {[given |-> TRUE, isfile |-> TRUE, json_ok |-> TRUE, data |-> d] :
                 d \in UNION {[1..n -> PrevEntries] : n \in 0..MaxTargets}}
        \cup {NoDiffStore}

\* r["url"] raises KeyError for no entry of the list
WellFormed(data) == \A k \in DOMAIN data : "url" \in DOMAIN data[k]

\* {r["url"]: r for r in prev_data}: the last entry of a url wins
ByUrl(data) ==
    [u \in {data[k].url : k \in DOMAIN data} |->
        data[CHOOSE k \in DOMAIN data :
                 /\ data[k].url = u
                 /\ \A j \in DOMAIN data : data[j].url = u => j <= k]]

\* the fields a result gains in the diff pass
Enriched(r, vis, cc, sev) ==
    [diff_pct |-> vis.diff_pct, diff_heatmap |-> vis.heatmap,
     diff_compare |-> vis.compare, content_changes |-> cc,
     diff_severity |-> sev] @@ r

\* a result without counterpart put through the comparison of nothing
NewEntryCompared(r) ==
    Enriched(r, Unavailable, <<>>, calculate_diff_severity(-10, <<>>))

\* lines 1058-1064: the url is not in prev_by_url
NewEntry(r) == Enriched(r, Unavailable, <<>>, "new")

\* the visual diff of lines 1024-1037
VisualDiff(r, prev_r, old_file, new_file, has_pil, save_ok) ==
    LET old_shot == Get(prev_r, "screenshot", Get(prev_r, "screenshot_path", <<>>))
        new_shot == Get(r, "screenshot_path", <<>>)
    IN  IF IsFile(old_shot, old_file) /\ IsFile(new_shot, new_file)
        THEN compute_screenshot_diff(old_file, new_file, r.index,
                                     DefaultThreshold, has_pil, save_ok)
        ELSE Unavailable

\* a matched target whose visual diff is put at 0 when it is unavailable
DiffEntryZeroed(r, prev_r, old_file, new_file, has_pil, save_ok) ==
    LET v == VisualDiff(r, prev_r, old_file, new_file, has_pil, save_ok)
        vis == IF v = Unavailable THEN [v EXCEPT !.diff_pct = 0] ELSE v
        cc == compute_content_diff(prev_r, r)
    IN  Enriched(r, vis, cc, calculate_diff_severity(vis.diff_pct, cc))

\* lines 1022-1046: the url is in prev_by_url
DiffEntry(r, prev_r, old_file, new_file, has_pil, save_ok) ==
    LET vis == VisualDiff(r, prev_r, old_file, new_file, has_pil, save_ok)
        cc == compute_content_diff(prev_r, r)
    IN  Enriched(r, vis, cc, calculate_diff_severity(vis.diff_pct, cc))

\* the counter a severity adds to, lines 1048-1057 and 1064
DiffCounter(sev) ==
    IF sev \in {"critical", "high", "medium", "low", "new"} THEN sev
    ELSE "unchanged"

\* lines 1005-1018: find and load the previous results.json
DiffStart ==
    /\ phase = "returned"
    /\ diff_store.given
    /\ IF ~diff_store.isfile
       THEN /\ phase' = "diffed"
            /\ UNCHANGED <<prev_by_url, diff_i, n_diff>>
       ELSE IF ~diff_store.json_ok \/ ~WellFormed(diff_store.data)
       THEN /\ phase' = "crashed"
            /\ UNCHANGED <<prev_by_url, diff_i, n_diff>>
       ELSE /\ phase' = "diffing"
            /\ prev_by_url' = ByUrl(diff_store.data)
            /\ diff_i' = 0
            /\ n_diff' = NoDiffCounts
    /\ UNCHANGED <<run_no, urls, resume, threads, retries, rate_limit,
                   json_exists, json_ok, results_json, done_urls,
                   previous_results,
                   pending_urls, task, results, last, counts, diff_store,
                   call, ret>>

\* one iteration of `for r in results` (lines 1021-1066), and what follows
\* the loop after the last one
DiffStep(old_file, new_file, has_pil, save_ok) ==
    /\ phase = "diffing"
    /\ diff_i < Len(results)
    /\ LET i == diff_i + 1
           r == results[i]
           e == IF r.url \in DOMAIN prev_by_url
                THEN DiffEntry(r, prev_by_url[r.url], old_file, new_file,
                               has_pil, save_ok)
                ELSE NewEntry(r)
       IN  /\ results' = [results EXCEPT ![i] = e]
           /\ n_diff' = [n_diff EXCEPT ![DiffCounter(e.diff_severity)] = @ + 1]
           /\ diff_i' = i
           /\ phase' = IF i = Len(results) THEN "diffed" ELSE "diffing"
    /\ UNCHANGED <<run_no, urls, resume, threads, retries, rate_limit,
                   json_exists, json_ok, results_json, done_urls,
                   previous_results,
                   pending_urls, task, last, counts, diff_store, prev_by_url,
                   call, ret>>

\* run_parallel has returned the results of a target list, fresh or reused
\* from a resume record
DiffInit ==
    /\ phase = "returned"
    /\ run_no = 1
    /\ urls \in {l \in TargetLists : \A k \in DOMAIN l : Parseable(l[k])}
    /\ resume = FALSE
    /\ threads = 1
    /\ retries = 0
    /\ rate_limit = FALSE
    /\ json_exists = FALSE
    /\ json_ok = FALSE
    /\ results_json = <<>>
    /\ done_urls = {}
    /\ previous_results = <<>>
    /\ pending_urls = <<>>
    /\ task = <<>>
    /\ results \in
          {[k \in DOMAIN urls |->
               IF reused[k]
               THEN ExportEntry(Stamp(CapturedResult(urls, k, 200)))
               ELSE Stamp(CapturedResult(urls, k, sts[k]))] :
             sts \in [DOMAIN urls -> {ERR, 200}],
             reused \in [DOMAIN urls -> BOOLEAN]}
    /\ last = [urls |-> <<>>, results |-> <<>>]
    /\ counts = CountsOf(results)
    /\ diff_store \in DiffStores
    /\ DiffNotStarted
    /\ NoPure

DiffNext ==
    \/ DiffStart
    \/ \E old_file, new_file \in ScreenshotFiles, has_pil, save_ok \in BOOLEAN :
          DiffStep(old_file, new_file, has_pil, save_ok)
    \/ \E json \in BOOLEAN : Export(json)

SpecDiff == DiffInit /\ [][DiffNext]_vars

\* the diff loop has gone through result k
Diffed(k) == phase \in {"diffing", "diffed"} /\ k <= diff_i

\* C13: after a diff pass every current result whose url is absent from the
\* previous run's urls has diff severity "new" and an empty content-change
\* list, whatever its status, title, category, grade, technologies or
\* screenshot; no visual or content comparison is made for it.
C13_AbsentIsNew ==
    \A k \in DOMAIN results :
        Diffed(k) /\ results[k].url \notin DOMAIN prev_by_url =>
            /\ results[k].diff_severity = "new"
            /\ results[k].content_changes = <<>>
            /\ results[k].diff_pct = -10
            /\ results[k].diff_heatmap = ""
            /\ results[k].diff_compare = ""

\* C13 witness: the pass is over; the first result, status 200 with a
\* screenshot, has no counterpart and is new, the second one has one
C13_Witness ==
    /\ phase = "diffed"
    /\ diff_i = 2
    /\ results[1].url \notin DOMAIN prev_by_url
    /\ results[1].status = 200
    /\ results[1].diff_severity = "new"
    /\ results[2].url \in DOMAIN prev_by_url
    /\ results[2].diff_severity # "new"

\* one of the two screenshots is missing or cannot be decoded
IOFailure(old_file, new_file) ==
    \/ ~old_file.exists
    \/ ~new_file.exists
    \/ ~old_file.ok
    \/ ~new_file.ok

\* a step of the diff loop that finds a screenshot missing or undecodable
FailedDiffStep ==
    \E old_file, new_file \in ScreenshotFiles, has_pil, save_ok \in BOOLEAN :
        /\ IOFailure(old_file, new_file)
        /\ DiffStep(old_file, new_file, has_pil, save_ok)

\* C18: a missing or unreadable prior or current screenshot of one target
\* sets that target's visual diff to -1 and does not fail the diff pass: the
\* content diff and the severity of the target are still computed and the
\* loop goes on to the later targets.
C18_IOFailureContained ==
    [][(/\ phase = "diffing"
        /\ results[diff_i + 1].url \in DOMAIN prev_by_url
        /\ FailedDiffStep)
       => LET i == diff_i + 1
              cc == compute_content_diff(prev_by_url[results[i].url],
                                         results[i])
          IN  /\ results'[i].diff_pct = -10
              /\ results'[i].content_changes = cc
              /\ results'[i].diff_severity = calculate_diff_severity(-10, cc)
              /\ diff_i' = i
              /\ phase' = IF i < Len(results) THEN "diffing" ELSE "diffed"]_vars

\* C18 witness: the pass is over; the first target has a counterpart, its
\* visual diff is unavailable, its status change is reported and rated high;
\* the second target was compared visually
C18_Witness ==
    /\ phase = "diffed"
    /\ diff_i = 2
    /\ results[1].url \in DOMAIN prev_by_url
    /\ results[1].diff_pct = -10
    /\ Len(results[1].content_changes) = 1
    /\ results[1].content_changes[1].field = "Status"
    /\ results[1].diff_severity = "high"
    /\ results[2].diff_pct = 1000

\* the record --diff points to is missing or malformed
BadDiffStore ==
    /\ diff_store.given
    /\ \/ ~diff_store.isfile
       \/ ~diff_store.json_ok
       \/ ~WellFormed(diff_store.data)

\* C20: when the prior run record supplied for diffing is missing or
\* malformed the diff is skipped and the run is not fatal: main goes on to
\* write the report and the exports, and no result is diffed.
C20_BadDiffRecordNotFatal ==
    BadDiffStore =>
        /\ phase # "crashed"
        /\ diff_i = 0

\* ===================== run_parallel, resume record of any content (717-729)
\* the results.json of a run over `list` whose captures all loaded, entry
\* `bad` (if any) replaced by one without "url"
StoredRun(list, bad) ==
    [k \in DOMAIN list |->
        IF k = bad THEN NoUrlEntry
        ELSE ExportEntry(Stamp(CapturedResult(list, k, 200)))]

ResumeStores ==
    {[exists |-> FALSE, ok |-> FALSE, data |-> <<>>],
     [exists |-> TRUE, ok |-> FALSE, data |-> <<>>]}
        \cup {[exists |-> TRUE, ok |-> TRUE, data |-> StoredRun(l, bad)] :
                 l \in {t \in TargetLists : \A k \in DOMAIN t : Parseable(t[k])},
                 bad \in 0..MaxTargets}

\* main is started once more on an output directory in any of these states
ResumeInit ==
    /\ phase = "start"
    /\ run_no = MaxRuns - 1
    /\ urls = <<>>
    /\ resume = FALSE
    /\ threads = 1
    /\ retries = 0
    /\ rate_limit = FALSE
    /\ \E st \in ResumeStores :
          /\ json_exists = st.exists
          /\ json_ok = st.ok
          /\ results_json = st.data
    /\ done_urls = {}
    /\ previous_results = <<>>
    /\ pending_urls = <<>>
    /\ task = <<>>
    /\ results = <<>>
    /\ last = [urls |-> <<>>, results |-> <<>>]
    /\ counts = NoCounts
    /\ NoDiff
    /\ NoPure

SpecResume == ResumeInit /\ [][Next]_vars

\* the record --resume reads is missing or malformed
BadResumeStore ==
    \/ ~json_exists
    \/ ~json_ok
    \/ \E k \in DOMAIN results_json : "url" \notin DOMAIN results_json[k]

\* C19: when the prior run record used for resume is missing or malformed,
\* resume is skipped for the run as a whole: no prior entry is reused, every
\* target is dispatched and the capture run is not aborted; a record that
\* becomes unreadable part-way through does not leave some of its entries
\* reused.
C19_BadResumeRecordSkipsResume ==
    InRun /\ resume /\ BadResumeStore =>
        /\ previous_results = <<>>
        /\ done_urls = {}
        /\ phase = "running" => DispatchedUrls = TargetUrls
        /\ (\A u \in TargetUrls : Parseable(u)) => phase # "aborted"

\* ================================================= sem_task (lines 744-754)
\* sem_task k is in `await asyncio.sleep(rate_limit)`
RateSleeping(k) == task[k].pc = "rate"

\* C23: with rate limiting, the fixed delay of a worker happens before the
\* worker acquires a pool slot: no worker holds a pool slot while it sleeps
\* the rate-limit delay.
C23_RateSleepOutsideSlot ==
    \A k \in Tasks : RateSleeping(k) => ~Holding(k)

\* ================================= grade_security_headers (lines 280-298)
SECURITY_HEADERS ==
    <<"strict-transport-security", "content-security-policy",
      "x-frame-options", "x-content-type-options", "referrer-policy",
      "permissions-policy">>

\* header names that are not on the checklist
OtherHeaders == {"server", "x-powered-by"}

\* the headers dicts: every set of names, each with a value
HeaderSamples ==
    {[h \in S |-> "v"] : S \in SUBSET (Range(SECURITY_HEADERS) \cup OtherHeaders)}

\* the grade one step more lenient
GradeOfLenient(count) ==
    IF count >= 4 THEN "A"
    ELSE IF count >= 3 THEN "B"
    ELSE IF count >= 2 THEN "C"
    ELSE IF count >= 1 THEN "D"
    ELSE "F"

\* lines 293-297
GradeOf(count) ==
    IF count >= 5 THEN "A"
    ELSE IF count >= 4 THEN "B"
    ELSE IF count >= 3 THEN "C"
    ELSE IF count >= 1 THEN "D"
    ELSE "F"

\* h in headers
InHeaders(h, headers) == h \in DOMAIN headers

grade_security_headers(headers) ==
    LET In(h) == InHeaders(h, headers)
        present == SelectSeq(SECURITY_HEADERS, In)
    IN  [grade |-> GradeOf(Len(present)), present |-> present]

GradeInit ==
    /\ NotRunning
    /\ call \in {[fn |-> "grade_security_headers", args |-> [headers |-> h]] :
                    h \in HeaderSamples}
    /\ ret = NoRet

GradeReturn ==
    /\ call.fn = "grade_security_headers"
    /\ ~ret.done
    /\ ret' = [done |-> TRUE,
               value |-> grade_security_headers(call.args.headers)]
    /\ UNCHANGED <<call, runvars>>

GradeNext == GradeReturn

SpecGrade == GradeInit /\ [][GradeNext]_vars

GradeReturned == call.fn = "grade_security_headers" /\ ret.done

\* the checklist headers among the keys of a headers dict
OnChecklist(headers) == DOMAIN headers \cap Range(SECURITY_HEADERS)

\* C22: the grade depends only on how many of the 6 checklist headers are
\* present: 5 or 6 gives A, 4 gives B, 3 gives C, 1 or 2 gives D, 0 gives F;
\* headers outside the checklist never change the grade, and the present
\* list is exactly the checklist headers found.  strict-transport-security,
\* x-frame-options, x-content-type-options, referrer-policy gives B.
C22_GradeByChecklistCount ==
    GradeReturned =>
        LET h == call.args.headers
            n == Cardinality(OnChecklist(h))
            v == ret.value
        IN  /\ n \in {5, 6} <=> v.grade = "A"
            /\ n = 4 <=> v.grade = "B"
            /\ n = 3 <=> v.grade = "C"
            /\ n \in {1, 2} <=> v.grade = "D"
            /\ n = 0 <=> v.grade = "F"
            /\ Range(v.present) = OnChecklist(h)
            /\ Len(v.present) = n
            /\ OnChecklist(h) = {"strict-transport-security", "x-frame-options",
                                 "x-content-type-options", "referrer-policy"}
                  => v.grade = "B"

\* C22 witness: the four headers of the example and a server header were
\* graded B
C22_Witness ==
    /\ GradeReturned
    /\ DOMAIN call.args.headers =
          {"strict-transport-security", "x-frame-options",
           "x-content-type-options", "referrer-policy", "server"}
    /\ ret.value.grade = "B"
    /\ Len(ret.value.present) = 4

\* ========================== browsing contexts of capture_page (594-689)
\* C24: every attempt acquires its own browsing context and releases it on
\* every exit path (success, failure, final-attempt exhaustion) before the
\* next attempt starts or capture_page returns; each task holds at most one
\* open context and none remains open when run_parallel returns.
C24_ContextScopedToAttempt ==
    /\ \A k \in Tasks :
          /\ task[k].open <= 1
          /\ task[k].open = 1 <=> task[k].ctx
          /\ task[k].pc = "page" => task[k].open = 1
          /\ task[k].pc \in {"wait", "rate", "newctx", "done"} => task[k].open = 0
    /\ Returned => \A k \in Tasks : task[k].open = 0

\* C24 witness: an attempt that failed with its context open and is not the
\* last one is closing that context before the next attempt
C24_Witness ==
    \E k \in Tasks :
        /\ task[k].pc = "closing"
        /\ ~task[k].brk
        /\ task[k].status = ERR
        /\ task[k].open = 1
        /\ MoreAttempts(task[k].attempt, retries)

\* ---------------------------------------------------------------------
\* The run store read back by the diff engine.  main builds prev_by_url
\* from the loaded results.json and reads, for the previous side, the url
\* (the key), the screenshot reference and the five fields of
\* compute_content_diff.  json.dump and json.load map the integers,
\* strings and lists of strings these fields hold to themselves, so the
\* loaded entry is the entry export_json built.
PrevSide(prev_r) ==
    [url |-> prev_r.url,
     status |-> Get(prev_r, "status", ""),
     title |-> Get(prev_r, "title", <<>>),
     category |-> Get(prev_r, "category", ""),
     sec_grade |-> Get(prev_r, "sec_grade", ""),
     techs |-> Get(prev_r, "techs", <<>>),
     screenshot |-> Get(prev_r, "screenshot", Get(prev_r, "screenshot_path", <<>>))]

SavedSide(r) ==
    [url |-> r.url, status |-> r.status, title |-> r.title,
     category |-> r.category, sec_grade |-> r.sec_grade, techs |-> r.techs,
     screenshot |-> ShotRef(r)]

Saved == json_ok /\ phase = "start"

\* C21: for every result saved by export_json and loaded back, the url,
\* status, title, category, security grade, technologies and screenshot
\* path the diff engine reads for the previous side are the values the
\* saved result had.
C21_StoreRoundTrip ==
    Saved =>
        /\ Len(results_json) = Len(last.results)
        /\ \A k \in 1..Len(last.results) :
              PrevSide(results_json[k]) = SavedSide(last.results[k])

\* A second run has saved a reused entry (it has no "screenshot_path" key)
\* beside a freshly captured page with a title, a category and techs.
C21_Witness ==
    /\ Saved
    /\ run_no = MaxRuns
    /\ \E j, k \in 1..Len(last.results) :
          /\ "screenshot_path" \notin DOMAIN last.results[j]
          /\ last.results[j].status = 200
          /\ "screenshot_path" \in DOMAIN last.results[k]
          /\ last.results[k].category = PageCategory
          /\ last.results[k].techs = PageTechs
          /\ last.results[k].title = PageTitle

\* ---------------------------------------------------------------------
\* capture_page called on its own, one browser operation at a time.
\* call holds its arguments; ret holds its frame while it runs (its
\* position, the loop variable and its locals) and has done = TRUE once
\* it has returned; raised, js_error, waited, timeouts, fails and left
\* record what happened (left: the locals failed attempts assigned
\* something read from the page).  An observation local is kept as [by, seen]: by is
\* the attempt (counted from 1) whose code assigned it last, 0 while it
\* still has the value of lines 571-584; seen tells that it holds
\* something read from the page rather than its empty default.
ObsFields ==
    {"load_time", "final_url", "page_title", "headers", "tls_info",
     "sec_grade", "techs", "category", "console_logs", "redirect_chain",
     "captured_cookies"}

Unset == [by |-> 0, seen |-> FALSE]

SettleStages == <<"load", "idle", "ready">>

InitFrame ==
    [done |-> FALSE, pc |-> "new_context", attempt |-> 0, context |-> FALSE,
     resp |-> FALSE, brk |-> FALSE, status |-> 0, status_by |-> 0,
     screenshot_taken |-> FALSE, obs |-> [f \in ObsFields |-> Unset],
     raised |-> "", js_error |-> FALSE, waited |-> <<>>, timeouts |-> 0,
     fails |-> 0, left |-> {}]

CaptureCalls ==
    {[fn |-> "capture_page", retries |-> r, js_inject |-> j, https |-> h] :
        r \in 0..MaxRetries, j \in BOOLEAN, h \in BOOLEAN}

CaptureInit ==
    /\ NotRunning
    /\ call \in CaptureCalls
    /\ ret = InitFrame

Capturing == call.fn = "capture_page" /\ ~ret.done

At(pc) == Capturing /\ ret.pc = pc

\* the locals in fields are assigned by the current attempt
Assign(F, fields, seen) ==
    [F EXCEPT !.obs = [f \in ObsFields |->
                          IF f \in fields
                          THEN [by |-> F.attempt + 1, seen |-> seen]
                          ELSE F.obs[f]]]

\* except Exception (lines 680-685), for the operation that raised
CaughtIn(F, what) ==
    LET G == [F EXCEPT !.screenshot_taken = FALSE, !.status = ERR,
                       !.status_by = F.attempt + 1, !.raised = what,
                       !.fails = @ + 1,
                       !.left = @ \cup {f \in ObsFields :
                                          /\ F.obs[f].by = F.attempt + 1
                                          /\ F.obs[f].seen}]
    IN  IF F.attempt = call.retries
        THEN [G EXCEPT !.brk = TRUE, !.pc = "finally"]
        ELSE [G EXCEPT !.pc = "backoff"]

\* a stage of best_effort_wait that timed out or raised: except: pass
SettledStrict(F, stage, out, next) ==
    IF out = "ok"
    THEN [F EXCEPT !.waited = Append(@, stage), !.pc = next]
    ELSE CaughtIn(F, stage)
Settled(F, stage, out, next) ==
    [F EXCEPT !.waited = Append(@, stage), !.pc = next,
              !.timeouts = IF out = "ok" THEN @ ELSE @ + 1]

\* pg.evaluate(js_inject) raised: logged (lines 622-623)
JsInjectRaisedFails(F) == CaughtIn(F, "js_inject")
JsInjectRaised(F) == [F EXCEPT !.js_error = TRUE, !.pc = "screenshot"]

\* resp.all_headers() raised (line 642)
AllHeadersRaisedLate(F) == CaughtIn(Assign(F, {"headers", "sec_grade"}, TRUE), "all_headers")
AllHeadersRaised(F) == CaughtIn(F, "all_headers")

\* console_logs = [] and redirect_chain = [] (lines 603, 607)
ResetListsSkipped(F) == F
ResetLists(F) == Assign(F, {"console_logs", "redirect_chain"}, FALSE)

\* context = await browser.new_context(**ctx_opts)
AttemptNewContext(ok) ==
    /\ At("new_context")
    /\ ret' = IF ok
              THEN [ret EXCEPT !.context = TRUE, !.pc = "new_page"]
              ELSE CaughtIn(ret, "new_context")
    /\ UNCHANGED <<call, runvars>>

\* context.add_cookies, context.new_page, then the two lists are reset
AttemptNewPage(ok) ==
    /\ At("new_page")
    /\ ret' = IF ok
              THEN [ResetLists(ret) EXCEPT !.pc = "goto"]
              ELSE CaughtIn(ret, "new_page")
    /\ UNCHANGED <<call, runvars>>

\* resp = await pg.goto(url, timeout, wait_until="domcontentloaded")
Goto(out) ==
    /\ At("goto")
    /\ out \in {"resp", "none", "error", "timeout"}
    /\ ret' = CASE out = "resp" ->
                     [Assign(ret, {"console_logs", "redirect_chain"}, TRUE)
                         EXCEPT !.resp = TRUE, !.pc = "load"]
                [] out = "none" ->
                     [ret EXCEPT !.resp = FALSE, !.pc = "load"]
                [] out = "timeout" ->
                     CaughtIn(Assign(ret, {"console_logs", "redirect_chain"}, TRUE),
                              "goto_timeout")
                [] OTHER -> CaughtIn(ret, "goto_error")
    /\ UNCHANGED <<call, runvars>>

\* best_effort_wait: page.wait_for_load_state("load")
WaitLoad(out) ==
    /\ At("load")
    /\ out \in {"ok", "timeout"}
    /\ ret' = Settled(ret, "load", out, "idle")
    /\ UNCHANGED <<call, runvars>>

\* best_effort_wait: page.wait_for_load_state("networkidle")
WaitIdle(out) ==
    /\ At("idle")
    /\ out \in {"ok", "timeout"}
    /\ ret' = Settled(ret, "idle", out, "ready")
    /\ UNCHANGED <<call, runvars>>

\* best_effort_wait: document.readyState, with the extra sleep when it is
\* not "complete"
ReadyState(out) ==
    /\ At("ready")
    /\ out \in {"ok", "loading", "error"}
    /\ ret' = Settled(ret, "ready", out,
                      IF call.js_inject THEN "js_inject" ELSE "screenshot")
    /\ UNCHANGED <<call, runvars>>

\* if js_inject: pg.evaluate(js_inject), asyncio.sleep(0.3)
JsInject(ok) ==
    /\ At("js_inject")
    /\ ret' = IF ok THEN [ret EXCEPT !.pc = "screenshot"] ELSE JsInjectRaised(ret)
    /\ UNCHANGED <<call, runvars>>

\* pg.screenshot, then load_time, status, screenshot_taken, final_url
Screenshot(ok) ==
    /\ At("screenshot")
    /\ ret' = IF ok
              THEN [Assign(ret, {"load_time", "final_url"}, TRUE)
                        EXCEPT !.status = IF ret.resp THEN 200 ELSE 0,
                               !.status_by = ret.attempt + 1,
                               !.screenshot_taken = TRUE,
                               !.pc = "title"]
              ELSE CaughtIn(ret, "screenshot")
    /\ UNCHANGED <<call, runvars>>

\* try: page_title = await pg.title() except Exception: page_title = ""
Title(ok) ==
    /\ At("title")
    /\ ret' = [Assign(ret, {"page_title"}, ok)
                  EXCEPT !.pc = IF ret.resp THEN "all_headers" ELSE "content"]
    /\ UNCHANGED <<call, runvars>>

\* if resp: all_h = await resp.all_headers(); headers = {...}
AllHeaders(ok) ==
    /\ At("all_headers")
    /\ ret' = IF ok
              THEN [Assign(ret, {"headers"}, TRUE)
                        EXCEPT !.pc = IF call.https THEN "security_details"
                                      ELSE "content"]
              ELSE AllHeadersRaised(ret)
    /\ UNCHANGED <<call, runvars>>

\* if resp and url.startswith("https"): resp.security_details()
SecurityDetails(out) ==
    /\ At("security_details")
    /\ out \in {"details", "none", "error"}
    /\ ret' = [(IF out = "details" THEN Assign(ret, {"tls_info"}, TRUE) ELSE ret)
                  EXCEPT !.pc = "content"]
    /\ UNCHANGED <<call, runvars>>

\* sec_grade, sec_headers = grade_security_headers(headers), then
\* pg.content(), fingerprint_tech and categorize_page in one try
Content(ok) ==
    /\ At("content")
    /\ ret' = [(IF ok
                THEN Assign(ret, {"sec_grade", "techs", "category"}, TRUE)
                ELSE Assign(ret, {"sec_grade"}, TRUE))
                  EXCEPT !.pc = "cookies"]
    /\ UNCHANGED <<call, runvars>>

\* captured_cookies = await context.cookies(), then break
Cookies(ok) ==
    /\ At("cookies")
    /\ ret' = [(IF ok THEN Assign(ret, {"captured_cookies"}, TRUE) ELSE ret)
                  EXCEPT !.brk = TRUE, !.pc = "finally"]
    /\ UNCHANGED <<call, runvars>>

\* await asyncio.sleep(0.3) of the except block
Backoff ==
    /\ At("backoff")
    /\ ret' = [ret EXCEPT !.pc = "finally"]
    /\ UNCHANGED <<call, runvars>>

\* finally: context.close() when there is one; then the return statement
\* after a break, the next iteration otherwise
ContextClose(ok) ==
    /\ At("finally")
    /\ ret.context \/ ok
    /\ ret' = IF ret.brk
              THEN [ret EXCEPT !.context = FALSE, !.pc = "return", !.done = TRUE]
              ELSE [ret EXCEPT !.context = FALSE, !.pc = "new_context",
                               !.attempt = @ + 1, !.raised = "",
                               !.js_error = FALSE, !.waited = <<>>,
                               !.timeouts = 0]
    /\ UNCHANGED <<call, runvars>>

CaptureNext ==
    \/ \E ok \in BOOLEAN : AttemptNewContext(ok)
    \/ \E ok \in BOOLEAN : AttemptNewPage(ok)
    \/ \E out \in {"resp", "none", "error", "timeout"} : Goto(out)
    \/ \E out \in {"ok", "timeout"} : WaitLoad(out)
    \/ \E out \in {"ok", "timeout"} : WaitIdle(out)
    \/ \E out \in {"ok", "loading", "error"} : ReadyState(out)
    \/ \E ok \in BOOLEAN : JsInject(ok)
    \/ \E ok \in BOOLEAN : Screenshot(ok)
    \/ \E ok \in BOOLEAN : Title(ok)
    \/ \E ok \in BOOLEAN : AllHeaders(ok)
    \/ \E out \in {"details", "none", "error"} : SecurityDetails(out)
    \/ \E ok \in BOOLEAN : Content(ok)
    \/ \E ok \in BOOLEAN : Cookies(ok)
    \/ Backoff
    \/ \E ok \in BOOLEAN : ContextClose(ok)

SpecCapture == CaptureInit /\ [][CaptureNext]_vars

\* capture_page has returned; the result is built from the locals
CaptureReturned == call.fn = "capture_page" /\ ret.done

\* the attempt that is running, counted from 1
ThisAttempt == ret.attempt + 1

CaptureFailed == CaptureReturned /\ ret.status = ERR

CaptureSucceeded == CaptureReturned /\ ret.status # ERR

\* C25: when an attempt succeeds after earlier failed attempts, every
\* observation field of the returned result comes from the successful
\* attempt alone: status, final URL, load time and title were assigned by
\* it, and every other field was either assigned by it or still has its
\* initial empty value; nothing a failed attempt recorded is in the result.
C25_SuccessUsesOwnObservations ==
    CaptureSucceeded /\ ret.fails > 0 =>
        /\ ret.status_by = ThisAttempt
        /\ \A f \in {"final_url", "load_time", "page_title"} :
              ret.obs[f].by = ThisAttempt
        /\ \A f \in ObsFields :
              ret.obs[f].by = ThisAttempt \/ ret.obs[f] = Unset

\* A success after a failed attempt that had already read a title, a final
\* URL and page events; the successful attempt got no response object.
C25_Witness ==
    /\ CaptureSucceeded
    /\ ret.fails > 0
    /\ {"page_title", "final_url", "console_logs"} \subseteq ret.left
    /\ ~ret.resp
    /\ ret.obs["headers"] = Unset

\* C26: every result returned by capture_page with the error status marker
\* has an empty title, whatever the attempts did, including attempts that
\* failed after the snapshot and the title had been read.
C26_ErrorResultHasEmptyTitle ==
    CaptureFailed => ~ret.obs["page_title"].seen

\* C27: every result returned by capture_page with the error status marker
\* has empty headers, technologies, category, TLS info and cookies and the
\* default grade F: none of these locals was ever assigned.
C27_ErrorResultHasDefaults ==
    CaptureFailed =>
        \A f \in {"headers", "techs", "category", "tls_info",
                  "captured_cookies", "sec_grade"} :
            ret.obs[f] = Unset

\* Every attempt failed, the last one at the latest operation that can
\* fail an attempt, after the snapshot and the title.
C27_Witness ==
    /\ CaptureFailed
    /\ call.retries > 0
    /\ ret.fails = call.retries + 1
    /\ ret.raised = "all_headers"
    /\ "page_title" \in ret.left

\* C28: the settle stages run in the order load, network idle, readiness
\* check; a timeout or an error in any of them never fails the attempt,
\* which always goes on to the snapshot.
C28_SettleIsBestEffort ==
    [][Capturing =>
          /\ ret.pc = "load" => ret'.pc = "idle"
          /\ ret.pc = "idle" => ret'.pc = "ready"
          /\ ret.pc = "ready" => ret'.pc \in {"js_inject", "screenshot"}
          /\ ret.pc = "js_inject" => ret'.pc = "screenshot"
          /\ ret.pc \in {"load", "idle", "ready"} =>
                /\ ret'.fails = ret.fails
                /\ ret'.status = ret.status
                /\ ret'.attempt = ret.attempt
          /\ ret'.pc = "screenshot" => ret'.waited = SettleStages]_vars

\* All three stages timed out or raised and the snapshot was taken.
C28_Witness ==
    /\ Capturing
    /\ ret.timeouts = Len(SettleStages)
    /\ ret.waited = SettleStages
    /\ ret.screenshot_taken
    /\ ret.pc = "title"

\* C29: a navigation error, a navigation timeout or an error in evaluating
\* the injected script ends the current attempt as a failure; the failure
\* is retried while retry budget remains, and the result is error-marked
\* only once every attempt of the budget has failed.
C29_EvaluationErrorFailsAttempt ==
    call.fn = "capture_page" =>
        /\ ret.raised \in {"goto_error", "goto_timeout"} \/ ret.js_error =>
              /\ ret.status = ERR
              /\ ret.status_by = ThisAttempt
              /\ ~ret.screenshot_taken
              /\ ret.pc \in {"backoff", "finally", "return"}
        /\ ret.pc = "backoff" => ret.attempt < call.retries
        /\ ret.fails > 0 /\ ret.attempt < call.retries =>
              ret.pc \in {"backoff", "finally"} /\ ~ret.brk
        /\ CaptureFailed => ret.fails = call.retries + 1

\* ---------------------------------------------------------------------
\* Progress of run_parallel.  Every browser operation and every sleep of a
\* running worker returns (weak fairness on the worker's steps); the
\* waiters of asyncio.Semaphore are woken in first-in first-out order, so
\* a worker for which the semaphore becomes free again and again gets it
\* (strong fairness on Acquire); gather resumes run_parallel once every
\* task is done (weak fairness on Collect).  Starting a run and exporting
\* are the operator's choices and have no fairness.
WorkerIds == 1..MaxTargets

Progress ==
    /\ \A k \in WorkerIds :
          /\ SF_vars(k \in Tasks /\ Acquire(k))
          /\ WF_vars(k \in Tasks /\ RateSleepDone(k))
          /\ WF_vars(k \in Tasks /\ \E ok \in BOOLEAN : NewContext(k, ok))
          /\ WF_vars(k \in Tasks /\
                        \E step \in {"nav", "shot", "hdr", "ok"}, st \in StatusCodes :
                            PageSteps(k, step, st))
          /\ WF_vars(k \in Tasks /\ BackoffDone(k))
          /\ WF_vars(k \in Tasks /\ CloseContext(k))
    /\ WF_vars(Collect)

SpecProgress == Init /\ [][Next]_vars /\ Progress

Waiting(k) == phase = "running" /\ k \in Tasks /\ task[k].pc = "wait"

HoldsSlot(k) == k \in Tasks /\ Holding(k)

Released(k) == k \in Tasks /\ task[k].pc = "done"

\* C30: no target stalls the pool: with every browser operation returning
\* or timing out, each pending target eventually acquires a pool slot, its
\* capture eventually returns and releases the slot, and run_parallel
\* eventually returns.
C30_RunParallelReturns ==
    /\ \A k \in WorkerIds : Waiting(k) ~> HoldsSlot(k)
    /\ \A k \in WorkerIds : HoldsSlot(k) ~> Released(k)
    /\ (phase = "running") ~> (phase = "returned")

\* ---------------------------------------------------------------------
\* The screenshot file task k of run_parallel writes: capture_page builds
\* it from the index sem_task passes (i + 1) and the host of the target.
WritesTo(k) ==
    ScreenshotPath(TaskIndex(pending_urls[k][1]), pending_urls[k][2])

\* C31: within one run no two dispatched captures write to the same
\* screenshot file: the file name of a task starts with its own index, and
\* the indexes of the dispatched tasks are pairwise distinct.
C31_NoSharedScreenshotFile ==
    \A j, k \in Tasks :
        /\ WritesTo(k)[1] = TaskIndex(pending_urls[k][1])
        /\ j # k =>
              /\ TaskIndex(pending_urls[j][1]) # TaskIndex(pending_urls[k][1])
              /\ WritesTo(j) # WritesTo(k)

\* Two captures of targets on one host are in flight at once and one of
\* them has written its screenshot.
C31_Witness ==
    \E j, k \in Tasks :
        /\ j # k
        /\ InFlight(j) /\ InFlight(k)
        /\ Netloc(pending_urls[j][2]) = Netloc(pending_urls[k][2])
        /\ task[j].shot_written
        /\ task[k].pc = "page"

\* the first element of the tuple run_parallel returns: len(urls)
Total == Len(urls)

CountSum == counts.success + counts.warn + counts.fail

\* C34: the counts run_parallel returns agree with the results it returns:
\* total = success + warn + fail and total is the number of returned
\* results, in every run, resumed runs included.
C34_CountsMatchResults ==
    Returned =>
        /\ Total = CountSum
        /\ Total = Len(results)

\* ---------------------------------------------------------------------
\* A result run_parallel took over from the resume record: it has the
\* keys export_json wrote, "screenshot" among them, and no
\* "screenshot_path".
TakenOver(r) == "screenshot_path" \notin DOMAIN r /\ "screenshot" \in DOMAIN r

\* a step of the diff loop that finds both screenshot files, decodes them
\* and can write its artifacts
ReadableDiffStep ==
    \E old_file, new_file \in {f \in ScreenshotFiles : f.exists /\ f.ok} :
        DiffStep(old_file, new_file, TRUE, TRUE)

\* C39: with resume and diff together, a result reused from the prior run
\* is diffed like a freshly captured one: when its screenshot file and the
\* previous run's screenshot file both exist it gets a computed visual
\* diff percent in [0,100], not -1.
C39_ReusedResultIsDiffed ==
    [][(/\ phase = "diffing"
        /\ results[diff_i + 1].url \in DOMAIN prev_by_url
        /\ TakenOver(results[diff_i + 1])
        /\ ReadableDiffStep)
       => results'[diff_i + 1].diff_pct \in 0..1000]_vars

\* C35: in a resumed run no dispatched capture writes to the screenshot
\* file a reused result references, and no two results of the output
\* reference the same screenshot file, whatever the prior run's target
\* list was.
C35_ResumeKeepsScreenshotsApart ==
    Loaded =>
        /\ \A k \in Tasks : \A j \in DOMAIN previous_results :
              WritesTo(k) # ShotRef(previous_results[j])
        /\ Returned =>
              \A i, j \in DOMAIN results :
                  i # j => ShotRef(results[i]) # ShotRef(results[j])

\* ---------------------------------------------------------------------
\* C36: when the visual diff of a matched target is unavailable (-1) the
\* severity comes from the content changes alone: high if some change is
\* high, medium if the list is non-empty without a high change, none if
\* it is empty; never critical and never low.
C36_UnavailableUsesContentOnly ==
    (SeverityReturned /\ call.args.visual_pct = Unavailable.diff_pct) =>
        LET cc == call.args.content_changes
            hh == \E k \in DOMAIN cc : cc[k].severity = "high"
            v == ret.value
        IN  /\ hh => v = "high"
            /\ (~hh /\ cc # <<>>) => v = "medium"
            /\ cc = <<>> => v = "none"
            /\ v \notin {"critical", "low"}

\* The visual diff is unavailable and the one content change is of medium
\* severity.
C36_Witness ==
    /\ SeverityReturned
    /\ call.args.visual_pct = Unavailable.diff_pct
    /\ call.args.content_changes = <<[field |-> "Title", severity |-> "medium"]>>
    /\ ret.value = "medium"

\* the order none < low < medium < high < critical
SeverityRank(s) ==
    CASE s = "none" -> 0
      [] s = "low" -> 1
      [] s = "medium" -> 2
      [] s = "high" -> 3
      [] s = "critical" -> 4

\* C38: calculate_diff_severity is monotone under none < low < medium <
\* high < critical: with the content changes fixed a larger visual percent
\* never gives a lower severity, and with the visual percent fixed adding a
\* content change to the list never gives a lower severity.
C38_SeverityMonotone ==
    SeverityReturned =>
        LET p == call.args.visual_pct
            cc == call.args.content_changes
        IN  /\ \A q \in PctSamples :
                  q >= p => SeverityRank(calculate_diff_severity(q, cc))
                                >= SeverityRank(ret.value)
            /\ \A c \in ChangeSamples :
                  /\ SeverityRank(calculate_diff_severity(p, Append(cc, c)))
                        >= SeverityRank(ret.value)
                  /\ SeverityRank(calculate_diff_severity(p, <<c>> \o cc))
                        >= SeverityRank(ret.value)

\* A percent between two thresholds with one low change: a larger percent
\* and an added high change both raise the severity.
C38_Witness ==
    /\ SeverityReturned
    /\ call.args.visual_pct = 350
    /\ call.args.content_changes = <<[field |-> "Tech", severity |-> "low"]>>
    /\ ret.value = "high"
    /\ calculate_diff_severity(600, Append(call.args.content_changes,
                                   [field |-> "Status", severity |-> "high"]))
          = "critical"
    /\ calculate_diff_severity(10, call.args.content_changes) = "medium"

\* ---------------------------------------------------------------------
\* C37: diffing a run against its own persisted record reports no change:
\* for every saved result compute_content_diff of the reloaded entry
\* against the result is empty, so with a visual percent of 0 or an
\* unavailable visual diff the severity is none.
C37_SelfDiffIsEmpty ==
    Saved =>
        \A k \in 1..Len(last.results) :
            LET cc == compute_content_diff(results_json[k], last.results[k])
            IN  /\ cc = <<>>
                /\ calculate_diff_severity(0, cc) = "none"
                /\ calculate_diff_severity(Unavailable.diff_pct, cc) = "none"

\* The saved run has an error-marked result and a result taken over from a
\* prior record with a title, a category and techs.
C37_Witness ==
    /\ Saved
    /\ \E j, k \in 1..Len(last.results) :
          /\ last.results[j].status = ERR
          /\ TakenOver(last.results[k])
          /\ last.results[k].title = PageTitle
          /\ last.results[k].category = PageCategory
          /\ last.results[k].techs = PageTechs

\* ---------------------------------------------------------------------
\* the percent compute_screenshot_diff returns for the call's files when
\* the artifacts can be written
PctWithArtifacts ==
    compute_screenshot_diff(call.args.old_file, call.args.new_file,
                            call.args.index, call.args.threshold,
                            call.args.has_pil, TRUE).diff_pct

\* C33: the absence of the visualization artifacts does not affect the
\* severity: when both screenshots are readable and the percent has been
\* computed, a failure to produce or write the heatmap or the composite
\* leaves the diff percent, and the severity for every list of content
\* changes, as they are when the artifacts are written.
C33_ArtifactFailureKeepsSeverity ==
    (VisualDiffReturned /\ Compared /\ ~call.args.save_ok) =>
        /\ ret.value.diff_pct = PctWithArtifacts
        /\ \A cc \in ChangeLists :
              calculate_diff_severity(ret.value.diff_pct, cc)
                 = calculate_diff_severity(PctWithArtifacts, cc)

\* ---------------------------------------------------------------------
\* the difference image of the call, and its blocks whose average
\* difference (the sum over the box divided by its size) is > threshold
CallGray == Gray(call.args.old_file.img, call.args.new_file.img)

AboveThreshold(gray, threshold) ==
    {c \in Blocks(gray) :
        SumPx(gray.px, BoxCols(gray, c[1]) \X BoxRows(gray, c[2]))
            > threshold * BoxW(gray) * BoxH(gray)}

\* the comparison was made and its result returned
PercentComputed == VisualDiffReturned /\ Compared /\ call.args.save_ok

\* C32: the visual diff percent is 100 x changedBlocks / totalBlocks
\* rounded to one decimal, a block being counted as changed exactly when
\* its average difference is strictly greater than the threshold (a block
\* whose average equals the threshold is not counted); the percent is
\* within [0,100] whenever the comparison is available.
C32_PercentOfChangedBlocks ==
    PercentComputed =>
        /\ ret.value.diff_pct =
              RoundHalfEven(
                  1000 * Cardinality(AboveThreshold(CallGray, call.args.threshold)),
                  Cardinality(Blocks(CallGray)))
        /\ ret.value.diff_pct \in 0..1000

====
